---- MODULE Spec2Model ----
(***************************************************************************)
(* Verification model of dex_robot:                                        *)
(*   - contracts/ArbitrageExecutor.sol : the on-chain atomic executor      *)
(*   - src/core/PriceMonitor.js        : the off-chain opportunity detector*)
(* The contract is modelled call by call: every external call the contract *)
(* makes (lending pool, token, quoter, router) is one step, and a revert   *)
(* at any step restores the ledger snapshot taken at transaction start.    *)
(***************************************************************************)
EXTENDS Integers, Sequences, FiniteSets, TLC

(***************************************************************************)
(* Bounds of the model                                                     *)
(***************************************************************************)
MaxAmount == 1
MaxFee == 1
MaxOut == 3
MaxBal == 2
MaxSockets == 3

(***************************************************************************)
(* Program constants and the address space                                 *)
(***************************************************************************)
BASIS_POINTS == 10000
InitialMinProfitBps == 10

ZERO == "address0"
NOTOKEN == "noToken"
THIS == "this"
POOL == "lendingPool"
PANCAKE == "pancakeRouter"
BISWAP == "biswapRouter"
NONE == "none"

Tokens == {"tokenA", "tokenB"}
TokenArgs == Tokens \cup {ZERO, NOTOKEN}
Users == {"alice", "bob"}
Routers == {PANCAKE, BISWAP}
Spenders == Routers \cup {POOL}
Amounts == 0..MaxAmount
Fees == 0..MaxFee
Outs == 0..MaxOut
BpsArgs == {0, 10, 10000, 20000}

NOT_ENTERED == "NOT_ENTERED"
ENTERED == "ENTERED"

VARIABLES
  owner,          \* Ownable._owner
  minProfitBps,   \* storage: minProfitBps
  paused,         \* storage: paused
  status,         \* ReentrancyGuard._status
  bal,            \* token ledger: bal[token] is balanceOf(this contract)
  debt,           \* token ledger: flash-loan amount drawn from the pool and not yet repaid
  allow,          \* token ledger: allowance granted by this contract, allow[token][spender]
  pc,             \* position of the transaction in flight ("Idle" between transactions)
  tx,             \* the transaction in flight, or the last one when pc = "Idle"
  calls,          \* external calls made by the contract in that transaction, in order
  snap,           \* ledger and storage at the start of that transaction
  checkPc,        \* position of checkPrices ("Idle" when no cycle is running)
  pancakePrice,   \* checkPrices: pancakePrice, the quote getPrice returned
  biswapPrice,    \* checkPrices: biswapPrice
  pancakePriceFormatted,  \* checkPrices: the 6-decimal string, in units of 10^-6
  biswapPriceFormatted,
  logged,         \* the opportunities the cycle wrote to the log
  initPc,         \* position of initialize ("Constructed" before it is called)
  isRunning,      \* PriceMonitor.isRunning
  reconnectAttempts,  \* PriceMonitor.reconnectAttempts
  wsProvider,     \* PriceMonitor.wsProvider: the socket of the current provider
  sockets,        \* the websockets created so far, with the handlers installed on each
  pairContracts,  \* PriceMonitor.pairContracts: the pair contract object held for each venue
  listeners,      \* the Swap and Sync listeners registered on pair contract objects
  inflight,       \* the reconnect() calls between their start and their completion
  gaveUp,         \* "maximum reconnect attempts reached" was logged
  received,       \* the last failure signal a websocket delivered, and what its handlers did
  closed          \* close() was called

\* The state of the price monitor process
\* The subscription transport of the price monitor
connection ==
  <<initPc, isRunning, reconnectAttempts, wsProvider, sockets, pairContracts, listeners,
    inflight, gaveUp, received, closed>>
monitor ==
  <<checkPc, pancakePrice, biswapPrice, pancakePriceFormatted, biswapPriceFormatted, logged,
    connection>>
\* The state of the chain: the contract's storage, the token ledger, the transaction in flight
chain == <<owner, minProfitBps, paused, status, bal, debt, allow, pc, tx, calls, snap>>
vars == <<chain, monitor>>

Ledger ==
  [owner |-> owner, minProfitBps |-> minProfitBps, paused |-> paused,
   status |-> status, bal |-> bal, debt |-> debt, allow |-> allow]

OwnerConfig == [owner |-> owner, minProfitBps |-> minProfitBps, paused |-> paused]

NoTx ==
  [fn |-> NONE, caller |-> NONE, result |-> NONE, reason |-> NONE, nested |-> NONE,
   sender |-> NONE, initiator |-> NONE,
   token1 |-> NONE, token2 |-> NONE, amount |-> 0, isPancakeswapBuy |-> FALSE,
   buyRouter |-> NONE, sellRouter |-> NONE, wasPaused |-> FALSE,
   fee |-> 0, minRequiredProfit |-> 0, leg |-> 0,
   expectedAmountOut |-> 0, minAmountOut |-> 0, buyAmount |-> 0, sellAmount |-> 0, netProfit |-> 0]

NewTx(fn, caller) == [NoTx EXCEPT !.fn = fn, !.caller = caller, !.wasPaused = paused]

Call(op, on, token, other, amount) ==
  [op |-> op, on |-> on, token |-> token, other |-> other, amount |-> amount]

(***************************************************************************)
(* EVM transaction semantics                                               *)
(***************************************************************************)
\* A top-level call that fails before it changed anything: the transaction is
\* recorded as reverted and the ledger stays as it is.
Reject(t, reason) ==
  /\ tx' = [t EXCEPT !.result = "reverted", !.reason = reason]
  /\ snap' = Ledger
  /\ calls' = <<>>
  /\ pc' = "Done"
  /\ UNCHANGED <<owner, minProfitBps, paused, status, bal, debt, allow, monitor>>

\* A top-level call that completes in one step with the given new storage.
Complete(t) ==
  /\ tx' = [t EXCEPT !.result = "success"]
  /\ snap' = Ledger
  /\ calls' = <<>>
  /\ pc' = "Done"

\* A revert of the transaction in flight: every change since its start is undone.
Revert(reason) ==
  /\ owner' = snap.owner
  /\ minProfitBps' = snap.minProfitBps
  /\ paused' = snap.paused
  /\ status' = snap.status
  /\ bal' = snap.bal
  /\ debt' = snap.debt
  /\ allow' = snap.allow
  /\ tx' = [tx EXCEPT !.result = "reverted", !.reason = reason]
  /\ pc' = "Done"
  /\ UNCHANGED <<calls, snap, monitor>>

\* Mutant of flashLoanCatch: the catch clause swallows the failure, so the
\* failed flashLoan call is undone and executeArbitrage returns normally.
flashLoanCatchSwallows(reason) ==
  /\ bal' = snap.bal
  /\ debt' = snap.debt
  /\ allow' = snap.allow
  /\ status' = NOT_ENTERED
  /\ tx' = [tx EXCEPT !.result = "success"]
  /\ pc' = "Done"
  /\ UNCHANGED <<owner, minProfitBps, paused, calls, snap, monitor>>

\* executeArbitrage, lines 147-153: both catch clauses revert the transaction.
flashLoanCatch(reason) == Revert("Flash loan failed")

\* A failure inside the lending pool's flashLoan (the callback included) makes
\* flashLoan revert; when executeArbitrage made the call, its try/catch runs.
Fail(reason) ==
  IF tx.fn = "executeArbitrage" THEN flashLoanCatch(reason) ELSE Revert(reason)

\* The ledger orders transactions totally: once a transaction has ended
\* (finalized or reverted) the next one starts from the ledger it left.
nextTransaction ==
  /\ pc = "Done"
  /\ pc' = "Idle"
  /\ tx' = NoTx
  /\ calls' = <<>>
  /\ snap' = Ledger
  /\ UNCHANGED <<owner, minProfitBps, paused, status, bal, debt, allow, monitor>>

(***************************************************************************)
(* Ownable (inherited, line 56)                                            *)
(***************************************************************************)
\* Mutant of onlyOwner: the modifier is missing.
onlyOwnerMissing(caller) == TRUE

onlyOwner(caller) == caller = owner

transferOwnership(caller, newOwner) ==
  /\ pc = "Idle"
  /\ LET t == NewTx("transferOwnership", caller) IN
     IF ~onlyOwner(caller) THEN Reject(t, "OwnableUnauthorizedAccount")
     ELSE IF newOwner = ZERO THEN Reject(t, "OwnableInvalidOwner")
     ELSE /\ owner' = newOwner
          /\ Complete(t)
          /\ UNCHANGED <<minProfitBps, paused, status, bal, debt, allow, monitor>>

renounceOwnership(caller) ==
  /\ pc = "Idle"
  /\ LET t == NewTx("renounceOwnership", caller) IN
     IF ~onlyOwner(caller) THEN Reject(t, "OwnableUnauthorizedAccount")
     ELSE /\ owner' = ZERO
          /\ Complete(t)
          /\ UNCHANGED <<minProfitBps, paused, status, bal, debt, allow, monitor>>

(***************************************************************************)
(* Owner operations of ArbitrageExecutor                                   *)
(***************************************************************************)
setMinProfitBps(caller, _minProfitBps) ==
  /\ pc = "Idle"
  /\ LET t == [NewTx("setMinProfitBps", caller) EXCEPT !.amount = _minProfitBps] IN
     IF ~onlyOwner(caller) THEN Reject(t, "OwnableUnauthorizedAccount")
     ELSE IF ~(_minProfitBps > 0) THEN Reject(t, "Min profit must be > 0")
     ELSE /\ minProfitBps' = _minProfitBps
          /\ Complete(t)
          /\ UNCHANGED <<owner, paused, status, bal, debt, allow, monitor>>

\* Mutant of pause: the already-paused require is missing.
pauseUnguarded(caller) ==
  /\ pc = "Idle"
  /\ LET t == NewTx("pause", caller) IN
     IF ~onlyOwner(caller) THEN Reject(t, "OwnableUnauthorizedAccount")
     ELSE /\ paused' = TRUE
          /\ Complete(t)
          /\ UNCHANGED <<owner, minProfitBps, status, bal, debt, allow, monitor>>

pause(caller) ==
  /\ pc = "Idle"
  /\ LET t == NewTx("pause", caller) IN
     IF ~onlyOwner(caller) THEN Reject(t, "OwnableUnauthorizedAccount")
     ELSE IF paused THEN Reject(t, "Contract already paused")
     ELSE /\ paused' = TRUE
          /\ Complete(t)
          /\ UNCHANGED <<owner, minProfitBps, status, bal, debt, allow, monitor>>

unpause(caller) ==
  /\ pc = "Idle"
  /\ LET t == NewTx("unpause", caller) IN
     IF ~onlyOwner(caller) THEN Reject(t, "OwnableUnauthorizedAccount")
     ELSE IF ~paused THEN Reject(t, "Contract not paused")
     ELSE /\ paused' = FALSE
          /\ Complete(t)
          /\ UNCHANGED <<owner, minProfitBps, status, bal, debt, allow, monitor>>

\* The owner's own token balance is outside the modelled ledger: the swept
\* amount leaves the contract.
emergencyWithdraw(caller, token) ==
  /\ pc = "Idle"
  /\ LET t == [NewTx("emergencyWithdraw", caller) EXCEPT !.token1 = token]
         balance == bal[token]
     IN
     IF ~onlyOwner(caller) THEN Reject(t, "OwnableUnauthorizedAccount")
     ELSE IF ~(balance > 0) THEN Reject(t, "No balance to withdraw")
     ELSE /\ bal' = [bal EXCEPT ![token] = 0]
          /\ Complete(t)
          /\ UNCHANGED <<owner, minProfitBps, paused, status, debt, allow, monitor>>

revokeAllowance(caller, token, spender) ==
  /\ pc = "Idle"
  /\ LET t == [NewTx("revokeAllowance", caller) EXCEPT !.token1 = token] IN
     IF ~onlyOwner(caller) THEN Reject(t, "OwnableUnauthorizedAccount")
     ELSE /\ allow' = [allow EXCEPT ![token][spender] = 0]
          /\ Complete(t)
          /\ UNCHANGED <<owner, minProfitBps, paused, status, bal, debt, monitor>>

(***************************************************************************)
(* executeArbitrage: the entry point                                       *)
(***************************************************************************)
\* IERC20(token).totalSupply(): positive for the deployed tokens; an address
\* with no token behind it gives no positive supply.
totalSupply(token) == IF token \in Tokens THEN 1 ELSE 0

\* Mutant of inputError: the require of line 108 is missing.
inputErrorSameTokenAllowed(token1, token2, amount) ==
  IF ~(token1 # ZERO /\ token2 # ZERO) THEN "Invalid token addresses"
  ELSE IF ~(amount > 0) THEN "Amount must be greater than 0"
  ELSE IF ~(totalSupply(token1) > 0) THEN "Token1 contract does not exist"
  ELSE IF ~(totalSupply(token2) > 0) THEN "Token2 contract does not exist"
  ELSE NONE

\* The require that fails first, lines 106-112, or NONE when all pass.
inputError(token1, token2, amount) ==
  IF ~(token1 # ZERO /\ token2 # ZERO) THEN "Invalid token addresses"
  ELSE IF ~(amount > 0) THEN "Amount must be greater than 0"
  ELSE IF ~(token1 # token2) THEN "Tokens must be different"
  ELSE IF ~(totalSupply(token1) > 0) THEN "Token1 contract does not exist"
  ELSE IF ~(totalSupply(token2) > 0) THEN "Token2 contract does not exist"
  ELSE NONE

\* A variant of entryGuardError with the nonReentrant modifier left out
entryGuardErrorNoGuard == NONE

\* The modifiers of executeArbitrage, line 104: nonReentrant only.
entryGuardError == IF status = ENTERED THEN "ReentrancyGuardReentrantCall" ELSE NONE

\* A contract that executeArbitrage has called into (the pool, a router, a
\* token) calls executeArbitrage again before the outer call has returned.
\* The nested call runs the nonReentrant modifier first; tx.nested records
\* how it ended. What the calling contract does with a rejection (pass it
\* on or not) is the choice between the steps of the outer call.
nestedExecuteArbitrage ==
  /\ pc \notin {"Idle", "Done"}
  /\ tx.fn = "executeArbitrage"
  /\ tx.nested = NONE
  /\ tx' = [tx EXCEPT !.nested = IF entryGuardError # NONE THEN entryGuardError
                                 ELSE "entered"]
  /\ UNCHANGED <<owner, minProfitBps, paused, status, bal, debt, allow, pc, calls, snap,
                 monitor>>

executeArbitrage(caller, token1, token2, amount, isPancakeswapBuy) ==
  /\ pc = "Idle"
  /\ LET buyRouter == IF isPancakeswapBuy THEN PANCAKE ELSE BISWAP
         sellRouter == IF isPancakeswapBuy THEN BISWAP ELSE PANCAKE
         t == [NewTx("executeArbitrage", caller) EXCEPT
                 !.token1 = token1, !.token2 = token2, !.amount = amount,
                 !.isPancakeswapBuy = isPancakeswapBuy,
                 !.buyRouter = buyRouter, !.sellRouter = sellRouter]
     IN
     IF entryGuardError # NONE THEN Reject(t, entryGuardError)
     ELSE IF inputError(token1, token2, amount) # NONE
       THEN Reject(t, inputError(token1, token2, amount))
     ELSE /\ status' = ENTERED
          /\ snap' = Ledger
          /\ tx' = t
          /\ calls' = <<Call("flashLoan", POOL, token1, THIS, amount)>>
          /\ pc' = "LoanRequested"
          /\ UNCHANGED <<owner, minProfitBps, paused, bal, debt, allow, monitor>>

(***************************************************************************)
(* The lending pool (ILendingPool, lines 44-54): it sends the loan to the  *)
(* receiver, calls the receiver's executeOperation with the caller of      *)
(* flashLoan as initiator, and pulls amount + premium afterwards.          *)
(***************************************************************************)
flashLoan ==
  /\ pc = "LoanRequested"
  /\ \E premium \in Fees, ok \in BOOLEAN :
       IF ~ok
       THEN Fail("flashLoan reverted")
       ELSE /\ bal' = [bal EXCEPT ![tx.token1] = @ + tx.amount]
            /\ debt' = debt + tx.amount
            /\ tx' = [tx EXCEPT !.fee = premium, !.sender = POOL, !.initiator = THIS]
            /\ pc' = "Callback"
            /\ UNCHANGED <<owner, minProfitBps, paused, status, allow, calls, snap, monitor>>

\* executeOperation reached from outside executeArbitrage: called directly by a
\* user, or by the pool in a flash loan that a user requested with this
\* contract as receiver (the pool then passes that user as initiator).
callExecuteOperation(sender, initiator, token1, token2, amount, premium) ==
  /\ pc = "Idle"
  /\ sender = POOL => initiator \in Users
  /\ token1 # token2
  /\ snap' = Ledger
  /\ calls' = <<>>
  /\ tx' = [NewTx("executeOperation", sender) EXCEPT
              !.sender = sender, !.initiator = initiator,
              !.token1 = token1, !.token2 = token2, !.amount = amount,
              !.isPancakeswapBuy = TRUE, !.buyRouter = PANCAKE, !.sellRouter = BISWAP,
              !.fee = premium]
  /\ bal' = IF sender = POOL THEN [bal EXCEPT ![token1] = @ + amount] ELSE bal
  /\ debt' = IF sender = POOL THEN debt + amount ELSE debt
  /\ pc' = "Callback"
  /\ UNCHANGED <<owner, minProfitBps, paused, status, allow, monitor>>

(***************************************************************************)
(* executeOperation: the flash-loan callback                               *)
(***************************************************************************)
\* Mutant of callbackError: the initiator require of line 227 is missing.
callbackErrorNoInitiator(sender, initiator) ==
  IF ~(sender = POOL) THEN "Caller must be lending pool" ELSE NONE

\* Lines 226-227.
callbackError(sender, initiator) ==
  IF ~(sender = POOL) THEN "Caller must be lending pool"
  ELSE IF ~(initiator = THIS) THEN "Initiator must be this contract"
  ELSE NONE

\* Line 237.
minRequiredProfitOf(flashLoanAmount, fee) ==
  fee + ((flashLoanAmount * minProfitBps) \div BASIS_POINTS)

executeOperation ==
  /\ pc = "Callback"
  /\ IF callbackError(tx.sender, tx.initiator) # NONE
     THEN Fail(callbackError(tx.sender, tx.initiator))
     ELSE /\ tx' = [tx EXCEPT !.minRequiredProfit = minRequiredProfitOf(tx.amount, tx.fee),
                              !.leg = 1]
          /\ pc' = "SwapApproveZero"
          /\ UNCHANGED <<owner, minProfitBps, paused, status, bal, debt, allow, calls, snap, monitor>>

\* The arguments of the two _executeSwap calls, lines 240 and 243.
swapArgs(leg) ==
  IF leg = 1
  THEN [token1 |-> tx.token1, token2 |-> tx.token2, amount |-> tx.amount,
        router |-> tx.buyRouter, isBuyTrade |-> TRUE]
  ELSE [token1 |-> tx.token2, token2 |-> tx.token1, amount |-> tx.buyAmount,
        router |-> tx.sellRouter, isBuyTrade |-> FALSE]

\* _executeSwap, lines 187-188.
tokenIn(a) == IF a.isBuyTrade THEN a.token1 ELSE a.token2
tokenOut(a) == IF a.isBuyTrade THEN a.token2 ELSE a.token1

\* IERC20.approve made by this contract: the allowance is set and the call logged.
approve(token, spender, amount) ==
  /\ allow' = [allow EXCEPT ![token][spender] = amount]
  /\ calls' = Append(calls, Call("approve", token, token, spender, amount))

\* Mutant of swapApproveZero: the reset goes to the other venue's router.
swapApproveZeroOtherRouter ==
  /\ pc = "SwapApproveZero"
  /\ LET a == swapArgs(tx.leg) IN
       approve(tokenIn(a), IF a.router = PANCAKE THEN BISWAP ELSE PANCAKE, 0)
  /\ pc' = "SwapApprove"
  /\ UNCHANGED <<owner, minProfitBps, paused, status, bal, debt, tx, snap, monitor>>

\* _executeSwap, line 191.
swapApproveZero ==
  /\ pc = "SwapApproveZero"
  /\ LET a == swapArgs(tx.leg) IN approve(tokenIn(a), a.router, 0)
  /\ pc' = "SwapApprove"
  /\ UNCHANGED <<owner, minProfitBps, paused, status, bal, debt, tx, snap, monitor>>

\* _executeSwap, line 192.
swapApprove ==
  /\ pc = "SwapApprove"
  /\ LET a == swapArgs(tx.leg) IN approve(tokenIn(a), a.router, a.amount)
  /\ pc' = "SwapQuote"
  /\ UNCHANGED <<owner, minProfitBps, paused, status, bal, debt, tx, snap, monitor>>

\* _executeSwap, line 202, in checked unsigned arithmetic: -1 stands for the
\* panic of 1 - q when q > 1.
minAmountOutOf(expectedAmountOut) ==
  LET q == minProfitBps \div BASIS_POINTS IN
  IF q > 1 THEN -1 ELSE expectedAmountOut * (1 - q)

\* _executeSwap, lines 195-202: the quoter answers with any amount, or reverts.
swapQuote ==
  /\ pc = "SwapQuote"
  /\ \E expectedAmountOut \in Outs, ok \in BOOLEAN :
       LET a == swapArgs(tx.leg) IN
       IF ~ok THEN Fail("quoter reverted")
       ELSE IF minAmountOutOf(expectedAmountOut) < 0 THEN Fail("Panic(0x11)")
       ELSE /\ tx' = [tx EXCEPT !.expectedAmountOut = expectedAmountOut,
                                !.minAmountOut = minAmountOutOf(expectedAmountOut)]
            /\ calls' = Append(calls, Call("quote", "quoter", tokenIn(a), tokenOut(a), a.amount))
            /\ pc' = "SwapExec"
            /\ UNCHANGED <<owner, minProfitBps, paused, status, bal, debt, allow, snap, monitor>>

\* _executeSwap, lines 204-215: router.exactInputSingle pulls amountIn of tokenIn
\* from this contract, pays amountOut >= amountOutMinimum of tokenOut, or reverts.
swapExec ==
  /\ pc = "SwapExec"
  /\ \E amountOut \in Outs, ok \in BOOLEAN :
       LET a == swapArgs(tx.leg)
           tin == tokenIn(a)
           tout == tokenOut(a)
       IN
       IF \/ ~ok
          \/ bal[tin] < a.amount
          \/ allow[tin][a.router] < a.amount
          \/ amountOut < tx.minAmountOut
       THEN Fail("router reverted")
       ELSE /\ bal[tout] + amountOut <= MaxBal + MaxAmount
            /\ bal' = [bal EXCEPT ![tin] = @ - a.amount, ![tout] = @ + amountOut]
            /\ allow' = [allow EXCEPT ![tin][a.router] = @ - a.amount]
            /\ calls' = Append(calls, Call("swap", a.router, tin, tout, a.amount))
            /\ IF tx.leg = 1
               THEN /\ tx' = [tx EXCEPT !.buyAmount = amountOut, !.leg = 2,
                                        !.expectedAmountOut = 0, !.minAmountOut = 0]
                    /\ pc' = "SwapApproveZero"
               ELSE /\ tx' = [tx EXCEPT !.sellAmount = amountOut,
                                        !.expectedAmountOut = 0, !.minAmountOut = 0]
                    /\ pc' = "ProfitCheck"
            /\ UNCHANGED <<owner, minProfitBps, paused, status, debt, snap, monitor>>

\* Lines 246-247.
netProfitOf(sellAmount, flashLoanAmount, fee) ==
  IF sellAmount > flashLoanAmount + fee THEN sellAmount - (flashLoanAmount + fee) ELSE 0

\* Line 250.
profitCheck ==
  /\ pc = "ProfitCheck"
  /\ LET netProfit == netProfitOf(tx.sellAmount, tx.amount, tx.fee) IN
     IF ~(netProfit >= tx.minRequiredProfit)
     THEN Fail("Insufficient profit to cover fees")
     ELSE /\ tx' = [tx EXCEPT !.netProfit = netProfit]
          /\ pc' = "RepayApproveZero"
          /\ UNCHANGED <<owner, minProfitBps, paused, status, bal, debt, allow, calls, snap, monitor>>

\* Line 253.
repayApproveZero ==
  /\ pc = "RepayApproveZero"
  /\ approve(tx.token1, POOL, 0)
  /\ pc' = "RepayApprove"
  /\ UNCHANGED <<owner, minProfitBps, paused, status, bal, debt, tx, snap, monitor>>

\* Lines 254-265: the approval for repayment, the event, return true.
repayApprove ==
  /\ pc = "RepayApprove"
  /\ approve(tx.token1, POOL, tx.amount + tx.fee)
  /\ pc' = "Repay"
  /\ UNCHANGED <<owner, minProfitBps, paused, status, bal, debt, tx, snap, monitor>>

\* The pool pulls amount + premium from the receiver; flashLoan returns, and so
\* does executeArbitrage, whose nonReentrant modifier releases the guard.
poolRepay ==
  /\ pc = "Repay"
  /\ LET due == tx.amount + tx.fee IN
     IF tx.sender # POOL
     THEN /\ tx' = [tx EXCEPT !.result = "success"]
          /\ pc' = "Done"
          /\ UNCHANGED <<owner, minProfitBps, paused, status, bal, debt, allow, calls, snap, monitor>>
     ELSE IF bal[tx.token1] < due \/ allow[tx.token1][POOL] < due
     THEN Fail("repayment failed")
     ELSE /\ bal' = [bal EXCEPT ![tx.token1] = @ - due]
          /\ debt' = 0
          /\ allow' = [allow EXCEPT ![tx.token1][POOL] = @ - due]
          /\ status' = NOT_ENTERED
          /\ tx' = [tx EXCEPT !.result = "success"]
          /\ pc' = "Done"
          /\ UNCHANGED <<owner, minProfitBps, paused, calls, snap, monitor>>

\* Anyone may send tokens to the contract.
fund(token) ==
  /\ pc = "Idle"
  /\ bal[token] < MaxBal
  /\ bal' = [bal EXCEPT ![token] = @ + 1]
  /\ Complete(NewTx("transfer", NONE))
  /\ UNCHANGED <<owner, minProfitBps, paused, status, debt, allow, monitor>>

(***************************************************************************)
(* JavaScript Number arithmetic (IEEE-754 binary64, round to nearest even) *)
(* as used by checkPrices. A long integer is a tuple of NumLimbs limbs of  *)
(* LimbBits bits, least significant first; a Number x > 0 is the record    *)
(* [m, e] with 2^52 <= m < 2^53 and x = m * 2^e; 0, Infinity and NaN have  *)
(* m = 0 and are told apart by e. Negative Numbers are never stored.       *)
(***************************************************************************)
LimbBits == 15
NumLimbs == 8
MantissaBits == 53
LimbBase == 2^LimbBits

\* F(v) and F(v, w) with the arguments evaluated before the call, as
\* JavaScript evaluates them
CallByValue(v, F(_)) == CHOOSE r \in {F(x) : x \in {v}} : TRUE
CallByValue2(v, w, F(_, _)) == CHOOSE r \in {F(x, y) : x \in {v}, y \in {w}} : TRUE

\* The tuple of the NumLimbs limbs F(1), ..., F(NumLimbs)
Vec(F(_)) == <<F(1), F(2), F(3), F(4), F(5), F(6), F(7), F(8)>>

BigZero == Vec(LAMBDA i : 0)
BigFromInt(n) ==
  Vec(LAMBDA i : IF i = 1 THEN n % LimbBase
                 ELSE IF i = 2 THEN (n \div LimbBase) % LimbBase
                 ELSE IF i = 3 THEN n \div (LimbBase * LimbBase)
                 ELSE 0)
BigToInt(x) == x[1] + LimbBase * x[2] + LimbBase * LimbBase * x[3]

RECURSIVE CarryAdd(_, _, _)
CarryAdd(x, y, i) ==
  IF i = 1 THEN 0 ELSE (x[i - 1] + y[i - 1] + CarryAdd(x, y, i - 1)) \div LimbBase
BigAdd(x, y) == Vec(LAMBDA i : (x[i] + y[i] + CarryAdd(x, y, i)) % LimbBase)

RECURSIVE BorrowSub(_, _, _)
BorrowSub(x, y, i) ==
  IF i = 1 THEN 0
  ELSE IF x[i - 1] - y[i - 1] - BorrowSub(x, y, i - 1) < 0 THEN 1 ELSE 0
\* x - y for x >= y
BigSub(x, y) ==
  Vec(LAMBDA i : (x[i] - y[i] - BorrowSub(x, y, i) + LimbBase) % LimbBase)

RECURSIVE CmpFrom(_, _, _)
CmpFrom(x, y, i) ==
  IF i = 0 THEN 0
  ELSE IF x[i] > y[i] THEN 1
  ELSE IF x[i] < y[i] THEN -1
  ELSE CmpFrom(x, y, i - 1)
BigCmp(x, y) == CmpFrom(x, y, NumLimbs)

RECURSIVE CarryMul(_, _, _)
CarryMul(x, c, i) ==
  IF i = 1 THEN 0 ELSE (x[i - 1] * c + CarryMul(x, c, i - 1)) \div LimbBase
\* x * c for 0 <= c < LimbBase
BigMulSmall(x, c) == Vec(LAMBDA i : (x[i] * c + CarryMul(x, c, i)) % LimbBase)

RECURSIVE RemFrom(_, _, _)
RemFrom(x, c, i) ==
  IF i > NumLimbs THEN 0 ELSE (x[i] + LimbBase * RemFrom(x, c, i + 1)) % c
\* floor(x / c) and x mod c for 0 < c <= LimbBase
BigDivSmall(x, c) ==
  [q |-> Vec(LAMBDA i : (x[i] + LimbBase * RemFrom(x, c, i + 1)) \div c),
   r |-> RemFrom(x, c, 1)]

BigShlLimbs(x, k) == Vec(LAMBDA i : IF i - k >= 1 THEN x[i - k] ELSE 0)
BigShrLimbs(x, k) == Vec(LAMBDA i : IF i + k <= NumLimbs THEN x[i + k] ELSE 0)
BigShl(x, k) == BigMulSmall(BigShlLimbs(x, k \div LimbBits), 2^(k % LimbBits))
BigShr(x, k) == BigDivSmall(BigShrLimbs(x, k \div LimbBits), 2^(k % LimbBits)).q
BigBit(x, i) == (x[(i \div LimbBits) + 1] \div 2^(i % LimbBits)) % 2
BigLowZero(x, k) == BigShl(BigShr(x, k), k) = x

RECURSIVE TopLimb(_, _)
TopLimb(x, i) == IF i = 0 THEN 0 ELSE IF x[i] # 0 THEN i ELSE TopLimb(x, i - 1)
\* the number of bits of x; 0 for x = 0
BigLen(x) ==
  LET t == TopLimb(x, NumLimbs) IN
  IF t = 0 THEN 0
  ELSE LimbBits * (t - 1) + (CHOOSE b \in 1..LimbBits : x[t] \div 2^(b - 1) = 1)

\* One step of the binary long division of x by y: bit i of x is brought
\* down into the remainder of the state d = [q, r].
DivBit(x, y, i, d) ==
  LET r2 == [BigMulSmall(d.r, 2) EXCEPT ![1] = @ + BigBit(x, i)]
      q2 == BigMulSmall(d.q, 2)
  IN IF BigCmp(r2, y) >= 0
     THEN [q |-> [q2 EXCEPT ![1] = @ + 1], r |-> BigSub(r2, y)]
     ELSE [q |-> q2, r |-> r2]

RECURSIVE DivBits(_, _, _, _, _)
\* The steps for the bits hi down to lo of x, from the state d
DivBits(x, y, hi, lo, d) ==
  IF hi = lo THEN DivBit(x, y, hi, d)
  ELSE LET mid == (hi + lo + 1) \div 2 IN
       CallByValue(DivBits(x, y, hi, mid, d), LAMBDA d2 : DivBits(x, y, mid - 1, lo, d2))

\* floor(x / y) and x mod y for y > 0
BigDiv(x, y) ==
  DivBits(x, y, LimbBits * NumLimbs - 1, 0, [q |-> BigZero, r |-> BigZero])

NumZero == [m |-> BigZero, e |-> 0]
Infinity == [m |-> BigZero, e |-> 1]
NaN == [m |-> BigZero, e |-> -1]
IsZero(a) == a = NumZero

\* The Number nearest to (x + f) * 2^e, ties to even, where 0 <= f < 1 and
\* f > 0 exactly when sticky; x has more than MantissaBits + 1 bits when sticky.
RoundToNumber(x, e, sticky) ==
  LET len == BigLen(x) IN
  IF len = 0 THEN NumZero
  ELSE IF len <= MantissaBits
  THEN [m |-> BigShl(x, MantissaBits - len), e |-> e - (MantissaBits - len)]
  ELSE LET d == len - MantissaBits
           roundBit == BigBit(x, d - 1) = 1
           rest == sticky \/ ~BigLowZero(x, d - 1)
       IN CallByValue(BigShr(x, d), LAMBDA q :
            LET up == roundBit /\ (rest \/ BigBit(q, 0) = 1) IN
            CallByValue(IF up THEN BigAdd(q, BigFromInt(1)) ELSE q, LAMBDA m :
              IF BigLen(m) > MantissaBits
              THEN [m |-> BigShr(m, 1), e |-> e + d + 1]
              ELSE [m |-> m, e |-> e + d]))

\* floor(x / 10^k) for k <= 8, and whether the division left a remainder
DivPow10(x, k) ==
  CallByValue(BigDivSmall(x, 10^(k \div 2)), LAMBDA d1 :
    CallByValue(BigDivSmall(d1.q, 10^(k - k \div 2)), LAMBDA d2 :
      [q |-> d2.q, sticky |-> d1.r # 0 \/ d2.r # 0]))

\* parseFloat of the decimal string of n / 10^decimals, 0 <= n < 2^31
parseFloat(n, decimals) ==
  CallByValue(DivPow10(BigShl(BigFromInt(n), 80), decimals),
              LAMBDA d : RoundToNumber(d.q, -80, d.sticky))

\* a + b for a, b >= 0
NumAdd(a, b) ==
  IF IsZero(a) THEN b
  ELSE IF IsZero(b) THEN a
  ELSE LET e0 == IF a.e < b.e THEN a.e ELSE b.e IN
       CallByValue(BigAdd(BigShl(a.m, a.e - e0), BigShl(b.m, b.e - e0)),
                   LAMBDA x : RoundToNumber(x, e0, FALSE))

\* Math.abs(a - b) for a, b >= 0
NumAbsDiff(a, b) ==
  IF IsZero(a) THEN b
  ELSE IF IsZero(b) THEN a
  ELSE LET e0 == IF a.e < b.e THEN a.e ELSE b.e IN
       CallByValue2(BigShl(a.m, a.e - e0), BigShl(b.m, b.e - e0),
                    LAMBDA x, y :
                      CallByValue(IF BigCmp(x, y) >= 0 THEN BigSub(x, y) ELSE BigSub(y, x),
                                  LAMBDA z : RoundToNumber(z, e0, FALSE)))

\* a * k for a small integer k
NumMulInt(a, k) ==
  CallByValue(BigMulSmall(a.m, k), LAMBDA x : RoundToNumber(x, a.e, FALSE))

\* a / b for finite a, b >= 0
NumDiv(a, b) ==
  IF IsZero(b) THEN (IF IsZero(a) THEN NaN ELSE Infinity)
  ELSE IF IsZero(a) THEN NumZero
  ELSE CallByValue(BigShl(a.m, 60), LAMBDA x :
         CallByValue(BigDiv(x, b.m), LAMBDA d :
           RoundToNumber(d.q, a.e - b.e - 60, d.r # BigZero)))

\* a > b for finite a, b >= 0
NumGreater(a, b) ==
  IF IsZero(a) THEN FALSE
  ELSE IF IsZero(b) THEN TRUE
  ELSE a.e > b.e \/ (a.e = b.e /\ BigCmp(a.m, b.m) > 0)

\* a - b > 0 for a >= 0 or NaN and finite b >= 0: the difference of two finite
\* Numbers is computed and rounded, and is positive when it is not zero and
\* a is the greater.
DifferencePositive(a, b) ==
  IF a = NaN THEN FALSE
  ELSE IF a = Infinity THEN TRUE
  ELSE NumGreater(a, b) /\ CallByValue(NumAbsDiff(a, b), LAMBDA d : ~IsZero(d))

\* Number.prototype.toFixed(6) of 0 <= a < 2^31 / 10^6, as the integer n with
\* the string being n / 10^6: the n for which n / 10^6 - a is closest to zero,
\* the larger n of two.
toFixed6(a) ==
  IF IsZero(a) THEN 0
  ELSE LET k == 0 - a.e IN
       CallByValue2(BigMulSmall(BigMulSmall(a.m, 1000), 1000), BigShl(BigFromInt(1), k - 1),
                    LAMBDA p, half : BigToInt(BigShr(BigAdd(p, half), k)))


(***************************************************************************)
(* PriceMonitor.checkPrices: one detection cycle over tokens.pairs, which   *)
(* config.js fills with the single pair BNB/USD. A quote is the integer k   *)
(* standing for the amount k * 10^11 of the 18-decimal quote token, that    *)
(* is the price k / 10^7.                                                   *)
(***************************************************************************)
\* getPrice returns null when the router call throws
Null == -1
QuoteDecimals == 7
\* amounts[1] as the routers may return it
Quotes ==
  {0, 1, 10000000, 10159000, 984100000, 1000000000, 1006000000,
   1015900000, 1015900004, 1015900005, 1030000000}

\* A variant of getPrice that hands a failed call on as a quote
getPriceFailureAsQuote(failed, amountsOut) ==
  IF failed THEN 1000000000 ELSE amountsOut

\* getPrice: amounts[1], or null when getAmountsOut failed
getPrice(failed, amountsOut) == IF failed THEN Null ELSE amountsOut

\* parseFloat(ethers.formatUnits(price, decimals)).toFixed(6)
formatPrice(price) == CallByValue(parseFloat(price, QuoteDecimals), toFixed6)

\* dexFee * 2 + flashLoanFee + slippageTolerance
totalCostRatio ==
  CallByValue2(parseFloat(25, 4), parseFloat(9, 4), LAMBDA dexFee, flashLoanFee :
    CallByValue2(NumMulInt(dexFee, 2), parseFloat(1, 2), LAMBDA fees, slippageTolerance :
      CallByValue(NumAdd(fees, flashLoanFee), LAMBDA sum : NumAdd(sum, slippageTolerance))))

\* Math.abs(pancakePriceNum - biswapPriceNum) / pancakePriceNum
priceDiffOf(pancakePriceNum, biswapPriceNum) ==
  CallByValue(NumAbsDiff(pancakePriceNum, biswapPriceNum),
              LAMBDA difference : NumDiv(difference, pancakePriceNum))

\* profitRatio = priceDiff - totalCostRatio; profitRatio > 0
profitable(priceDiff) == CallByValue(totalCostRatio, LAMBDA cost : DifferencePositive(priceDiff, cost))

\* A variant of logEntry that always names PancakeSwap as the high venue
logEntryPancakeHigh(pancakeFormatted, biswapFormatted) ==
  [pair |-> "BNB/USD", highDex |-> "PancakeSwap", highPrice |-> pancakeFormatted,
   lowDex |-> "BiSwap", lowPrice |-> biswapFormatted]

\* The entry written by console.log and logger.info (the percentages left out)
logEntry(pancakeFormatted, biswapFormatted) ==
  IF pancakeFormatted > biswapFormatted
  THEN [pair |-> "BNB/USD", highDex |-> "PancakeSwap", highPrice |-> pancakeFormatted,
        lowDex |-> "BiSwap", lowPrice |-> biswapFormatted]
  ELSE [pair |-> "BNB/USD", highDex |-> "BiSwap", highPrice |-> biswapFormatted,
        lowDex |-> "PancakeSwap", lowPrice |-> pancakeFormatted]

\* BigInt truthiness in `pancakePrice && biswapPrice`: null and 0n are falsy
truthy(price) == price # Null /\ price # 0

\* checkPrices is called (by startMonitoring or by a pair event listener): the
\* cycle runs up to its first await, the PancakeSwap quote request.
checkPricesCall ==
  /\ checkPc = "Idle"
  /\ checkPc' = "PancakeQuote"
  /\ pancakePrice' = Null
  /\ biswapPrice' = Null
  /\ pancakePriceFormatted' = Null
  /\ biswapPriceFormatted' = Null
  /\ logged' = <<>>

checkPrices ==
  /\ checkPricesCall
  /\ UNCHANGED <<chain, connection>>

\* The PancakeSwap getPrice settles; the cycle goes on to the BiSwap request.
pancakeQuote(failed, amountsOut) ==
  /\ checkPc = "PancakeQuote"
  /\ pancakePrice' = getPrice(failed, amountsOut)
  /\ checkPc' = "BiswapQuote"
  /\ UNCHANGED <<biswapPrice, pancakePriceFormatted, biswapPriceFormatted, logged, chain,
                 connection>>

\* The BiSwap getPrice settles; the rest of the loop body runs, and the loop
\* and the cycle end, the pair being the last.
biswapQuote(failed, amountsOut) ==
  /\ checkPc = "BiswapQuote"
  /\ biswapPrice' = getPrice(failed, amountsOut)
  /\ IF truthy(pancakePrice) /\ truthy(biswapPrice')
     THEN /\ pancakePriceFormatted' = formatPrice(pancakePrice)
          /\ biswapPriceFormatted' = formatPrice(biswapPrice')
          /\ logged' =
               IF CallByValue(
                    CallByValue2(parseFloat(pancakePriceFormatted', 6),
                                 parseFloat(biswapPriceFormatted', 6), priceDiffOf),
                    profitable)
               THEN <<logEntry(pancakePriceFormatted', biswapPriceFormatted')>>
               ELSE <<>>
     ELSE UNCHANGED <<pancakePriceFormatted, biswapPriceFormatted, logged>>
  /\ checkPc' = "Idle"
  /\ UNCHANGED <<pancakePrice, chain, connection>>

\* The getPrice requests of the cycle that have been issued and have not
\* settled: checkPrices awaits the PancakeSwap one before it issues the
\* BiSwap one.
outstanding ==
  IF checkPc = "PancakeQuote" THEN {"pancakeswap"}
  ELSE IF checkPc = "BiswapQuote" THEN {"biswap"}
  ELSE {}

(***************************************************************************)
(* The subscription transport: initialize, reconnect, startMonitoring and  *)
(* close of PriceMonitor                                                   *)
(***************************************************************************)
maxReconnectAttempts == 5
reconnectInterval == 5000

\* The keys of config.dexes, in the order of Object.entries
DexKeys == <<"pancakeswap", "biswap">>
PairEvents == {"Swap", "Sync"}

NoSocket == 0
\* The socket of the provider that initialize creates; the factory contracts
\* are bound to it and stay bound to it
FirstSocket == 1
NoContract == 0

\* A websocket as `new ethers.WebSocketProvider` makes it: `raw` says whether
\* the provider object exposes the socket as `_websocket`, `handlers` counts
\* the close/error handler pairs installed on it, `message` the message handlers.
newSocket(raw, message) ==
  [status |-> "open", raw |-> raw, handlers |-> 0, message |-> message]

backoffInterval(attempts) == reconnectInterval * 2 ^ (attempts - 1)

\* A variant of reconnect whose cap test lets one more attempt through
reconnectCapOffByOne(st) ==
  IF st.attempts > maxReconnectAttempts
  THEN [st EXCEPT !.gaveUp = TRUE]
  ELSE [attempts |-> st.attempts + 1,
        inflight |-> Append(st.inflight,
                            [n |-> st.attempts + 1,
                             delay |-> backoffInterval(st.attempts + 1),
                             pc |-> "Backoff", socket |-> NoSocket]),
        gaveUp |-> st.gaveUp]

\* reconnect() up to its first await, the backoff timer; st holds
\* reconnectAttempts, the calls in flight and the log flag.
reconnect(st) ==
  IF st.attempts >= maxReconnectAttempts
  THEN [st EXCEPT !.gaveUp = TRUE]
  ELSE [attempts |-> st.attempts + 1,
        inflight |-> Append(st.inflight,
                            [n |-> st.attempts + 1,
                             delay |-> backoffInterval(st.attempts + 1),
                             pc |-> "Backoff", socket |-> NoSocket]),
        gaveUp |-> st.gaveUp]

\* The handlers of one event, each calling reconnect(), run one after another
RECURSIVE reconnectTimes(_, _)
reconnectTimes(k, st) == IF k = 0 THEN st ELSE reconnectTimes(k - 1, reconnect(st))

reconnectState == [attempts |-> reconnectAttempts, inflight |-> inflight, gaveUp |-> gaveUp]

\* k handlers of a websocket event call reconnect()
callReconnect(k, calls0) ==
  LET st == reconnectTimes(k, [reconnectState EXCEPT !.inflight = calls0])
  IN  /\ reconnectAttempts' = st.attempts
      /\ inflight' = st.inflight
      /\ gaveUp' = st.gaveUp

\* A failure signal whose k handlers called reconnect(), and the number of
\* those calls that went on to their backoff timer
signal(kind, k) ==
  [kind |-> kind, calls |-> k, started |-> Len(inflight') - Len(inflight)]

NoSignal == [kind |-> NONE, calls |-> 0, started |-> 0]

\* setupWebSocketHandlers on the provider that is current when it runs
setupWebSocketHandlers(socks, ws) ==
  IF ws # NoSocket /\ socks[ws].raw
  THEN [socks EXCEPT ![ws].handlers = @ + 1]
  ELSE socks

\* One iteration of the loop of initializePairContracts after its getPair
\* settles: `resolved` says that it returned a non-zero address, `label`
\* names the contract object that is created then.
initializePairContract(contracts, dexKey, resolved, label) ==
  IF resolved THEN [contracts EXCEPT ![dexKey] = label] ELSE contracts

\* getPair goes through the factory's provider, the first socket
CanResolve == sockets[FirstSocket].status \in {"open", "errored"}

RemoveAt(seq, i) == SubSeq(seq, 1, i - 1) \o SubSeq(seq, i + 1, Len(seq))

\* Room for the reconnect calls an event starts: every call in flight
\* creates one more socket
Room(k) == Len(sockets) + Len(inflight) + k <= MaxSockets

\* initialize() up to its first await, the first getPair
initialize(raw) ==
  /\ initPc = "Constructed"
  /\ sockets' = <<newSocket(raw, 0)>>
  /\ wsProvider' = FirstSocket
  /\ initPc' = "GetPair1"
  /\ UNCHANGED <<isRunning, reconnectAttempts, pairContracts, listeners, inflight, gaveUp,
                 received, closed, checkPc, pancakePrice, biswapPrice,
                 pancakePriceFormatted, biswapPriceFormatted, logged, chain>>

\* The first getPair of initialize settles
initializeGetPair1(resolved) ==
  /\ initPc = "GetPair1"
  /\ resolved => CanResolve
  /\ pairContracts' = initializePairContract(pairContracts, DexKeys[1], resolved, FirstSocket)
  /\ initPc' = "GetPair2"
  /\ UNCHANGED <<isRunning, reconnectAttempts, wsProvider, sockets, listeners, inflight,
                 gaveUp, received, closed, checkPc, pancakePrice, biswapPrice,
                 pancakePriceFormatted, biswapPriceFormatted, logged, chain>>

\* The second getPair settles; initialize installs the socket handlers and
\* calls startMonitoring, which runs up to the first await of checkPrices.
initializeGetPair2(resolved) ==
  /\ initPc = "GetPair2"
  /\ resolved => CanResolve
  /\ pairContracts' = initializePairContract(pairContracts, DexKeys[2], resolved, FirstSocket)
  /\ sockets' = setupWebSocketHandlers(sockets, wsProvider)
  /\ isRunning' = TRUE
  /\ checkPricesCall
  /\ initPc' = "CheckPrices"
  /\ UNCHANGED <<reconnectAttempts, wsProvider, listeners, inflight, gaveUp, received,
                 closed, chain>>

\* The first checkPrices of startMonitoring has ended: the Swap and Sync
\* listeners are put on the pair contracts held now, and initialize returns.
startMonitoring ==
  /\ initPc = "CheckPrices"
  /\ checkPc = "Idle"
  /\ listeners' = listeners \cup
       {<<DexKeys[d], pairContracts[DexKeys[d]], e>> :
          d \in {i \in 1..Len(DexKeys) : pairContracts[DexKeys[i]] # NoContract},
          e \in PairEvents}
  /\ initPc' = "Monitoring"
  /\ UNCHANGED <<isRunning, reconnectAttempts, wsProvider, sockets, pairContracts, inflight,
                 gaveUp, received, closed, checkPc, pancakePrice, biswapPrice,
                 pancakePriceFormatted, biswapPriceFormatted, logged, chain>>

\* A Swap or Sync event reaches a listener
pairEvent(dexKey, label, event) ==
  /\ <<dexKey, label, event>> \in listeners
  /\ IF ~isRunning
     THEN UNCHANGED <<checkPc, pancakePrice, biswapPrice, pancakePriceFormatted,
                      biswapPriceFormatted, logged>>
     ELSE checkPricesCall
  /\ UNCHANGED <<chain, connection>>

\* The websocket emits "error"
websocketError(s) ==
  /\ s \in 1..Len(sockets)
  /\ sockets[s].status = "open"
  /\ Room(sockets[s].handlers)
  /\ sockets' = [sockets EXCEPT ![s].status = "errored"]
  /\ callReconnect(sockets[s].handlers, inflight)
  /\ received' = signal("error", sockets[s].handlers)
  /\ UNCHANGED <<initPc, isRunning, wsProvider, pairContracts, listeners, closed, checkPc,
                 pancakePrice, biswapPrice, pancakePriceFormatted, biswapPriceFormatted,
                 logged, chain>>

\* The websocket emits "close"
websocketClose(s) ==
  /\ s \in 1..Len(sockets)
  /\ sockets[s].status # "closed"
  /\ Room(sockets[s].handlers)
  /\ sockets' = [sockets EXCEPT ![s].status = "closed"]
  /\ callReconnect(sockets[s].handlers, inflight)
  /\ received' = signal("close", sockets[s].handlers)
  /\ UNCHANGED <<initPc, isRunning, wsProvider, pairContracts, listeners, closed, checkPc,
                 pancakePrice, biswapPrice, pancakePriceFormatted, biswapPriceFormatted,
                 logged, chain>>

\* The websocket delivers a message that says "rate limit"
rateLimitMessage(s) ==
  /\ s \in 1..Len(sockets)
  /\ sockets[s].status = "open"
  /\ Room(sockets[s].message)
  /\ callReconnect(sockets[s].message, inflight)
  /\ received' = signal("rate limit", sockets[s].message)
  /\ UNCHANGED <<initPc, isRunning, wsProvider, sockets, pairContracts, listeners, closed,
                 checkPc, pancakePrice, biswapPrice, pancakePriceFormatted,
                 biswapPriceFormatted, logged, chain>>

\* The backoff timer of the i-th call in flight fires. Either the try block
\* throws (the constructor does, or `_websocket` is missing) and the catch
\* calls reconnect(), or the new provider gets its message handler and the
\* call waits for the first getPair.
reconnectTimer(i, threw) ==
  /\ i \in 1..Len(inflight)
  /\ inflight[i].pc = "Backoff"
  /\ IF threw \/ ~sockets[FirstSocket].raw
     THEN /\ callReconnect(1, RemoveAt(inflight, i))
          /\ UNCHANGED <<wsProvider, sockets>>
     ELSE /\ sockets' = Append(sockets, newSocket(TRUE, 1))
          /\ wsProvider' = Len(sockets) + 1
          /\ inflight' = [inflight EXCEPT ![i].pc = "GetPair1",
                                          ![i].socket = Len(sockets) + 1]
          /\ UNCHANGED <<reconnectAttempts, gaveUp>>
  /\ UNCHANGED <<initPc, isRunning, pairContracts, listeners, received, closed, checkPc,
                 pancakePrice, biswapPrice, pancakePriceFormatted, biswapPriceFormatted,
                 logged, chain>>

\* The first getPair of the i-th call in flight settles
reconnectGetPair1(i, resolved) ==
  /\ i \in 1..Len(inflight)
  /\ inflight[i].pc = "GetPair1"
  /\ resolved => CanResolve
  /\ pairContracts' =
       initializePairContract(pairContracts, DexKeys[1], resolved, inflight[i].socket)
  /\ inflight' = [inflight EXCEPT ![i].pc = "GetPair2"]
  /\ UNCHANGED <<initPc, isRunning, reconnectAttempts, wsProvider, sockets, listeners,
                 gaveUp, received, closed, checkPc, pancakePrice, biswapPrice,
                 pancakePriceFormatted, biswapPriceFormatted, logged, chain>>

\* The second getPair settles; reconnect installs the socket handlers on the
\* current provider, resets the counter and ends.
reconnectGetPair2(i, resolved) ==
  /\ i \in 1..Len(inflight)
  /\ inflight[i].pc = "GetPair2"
  /\ resolved => CanResolve
  /\ pairContracts' =
       initializePairContract(pairContracts, DexKeys[2], resolved, inflight[i].socket)
  /\ sockets' = setupWebSocketHandlers(sockets, wsProvider)
  /\ reconnectAttempts' = 0
  /\ inflight' = RemoveAt(inflight, i)
  /\ UNCHANGED <<initPc, isRunning, wsProvider, listeners, gaveUp, received, closed,
                 checkPc, pancakePrice, biswapPrice, pancakePriceFormatted,
                 biswapPriceFormatted, logged, chain>>

\* close(), called on the monitor that initialize returned; destroy() closes
\* the socket of the current provider, whose "close" event follows.
close ==
  /\ initPc = "Monitoring"
  /\ ~closed
  /\ isRunning' = FALSE
  /\ listeners' = {l \in listeners : l[2] # pairContracts[l[1]]}
  /\ sockets' = IF sockets[wsProvider].status = "closed"
                THEN sockets
                ELSE [sockets EXCEPT ![wsProvider].status = "closing"]
  /\ closed' = TRUE
  /\ UNCHANGED <<initPc, reconnectAttempts, wsProvider, pairContracts, inflight, gaveUp,
                 received, checkPc, pancakePrice, biswapPrice, pancakePriceFormatted,
                 biswapPriceFormatted, logged, chain>>

\* What the health check of ProcessManager reads
isMonitorRunning == initPc = "Monitoring" /\ isRunning

(***************************************************************************)
(* Specifications: the contract on the chain, and the price monitor        *)
(***************************************************************************)
Init ==
  /\ owner = "alice"
  /\ minProfitBps = InitialMinProfitBps
  /\ paused = FALSE
  /\ status = NOT_ENTERED
  /\ bal = [t \in Tokens |-> 0]
  /\ debt = 0
  /\ allow = [t \in Tokens |-> [s \in Spenders |-> 0]]
  /\ pc = "Idle"
  /\ tx = NoTx
  /\ calls = <<>>
  /\ snap = [owner |-> "alice", minProfitBps |-> InitialMinProfitBps, paused |-> FALSE,
             status |-> NOT_ENTERED,
             bal |-> [t \in Tokens |-> 0], debt |-> 0,
             allow |-> [t \in Tokens |-> [s \in Spenders |-> 0]]]
  /\ checkPc = "Idle"
  /\ pancakePrice = Null
  /\ biswapPrice = Null
  /\ pancakePriceFormatted = Null
  /\ biswapPriceFormatted = Null
  /\ logged = <<>>
  /\ initPc = "Constructed"
  /\ isRunning = FALSE
  /\ reconnectAttempts = 0
  /\ wsProvider = NoSocket
  /\ sockets = <<>>
  /\ pairContracts = [d \in {DexKeys[i] : i \in 1..Len(DexKeys)} |-> NoContract]
  /\ listeners = {}
  /\ inflight = <<>>
  /\ gaveUp = FALSE
  /\ received = NoSignal
  /\ closed = FALSE

Next ==
  \/ \E c \in Users, n \in Users \cup {ZERO} : transferOwnership(c, n)
  \/ \E c \in Users : renounceOwnership(c)
  \/ \E c \in Users, v \in BpsArgs : setMinProfitBps(c, v)
  \/ \E c \in Users : pause(c)
  \/ \E c \in Users : unpause(c)
  \/ \E c \in Users, t \in Tokens : emergencyWithdraw(c, t)
  \/ \E c \in Users, t \in Tokens, s \in Spenders : revokeAllowance(c, t, s)
  \/ \E c \in Users, t1 \in TokenArgs, t2 \in TokenArgs, a \in Amounts, b \in BOOLEAN :
       executeArbitrage(c, t1, t2, a, b)
  \/ flashLoan
  \/ \E s \in Users \cup {POOL}, i \in Users \cup {THIS}, f \in Fees :
       callExecuteOperation(s, i, "tokenA", "tokenB", 1, f)
  \/ executeOperation
  \/ swapApproveZero
  \/ swapApprove
  \/ swapQuote
  \/ swapExec
  \/ profitCheck
  \/ repayApproveZero
  \/ repayApprove
  \/ poolRepay
  \/ \E t \in Tokens : fund(t)
  \/ nestedExecuteArbitrage
  \/ nextTransaction

Spec == Init /\ [][Next]_vars

NextMonitor ==
  \/ checkPrices
  \/ \E q \in Quotes : pancakeQuote(FALSE, q)
  \/ pancakeQuote(TRUE, 0)
  \/ \E q \in Quotes : biswapQuote(FALSE, q)
  \/ biswapQuote(TRUE, 0)

SpecMonitor == Init /\ [][NextMonitor]_vars

Labels == 1..MaxSockets

NextConnection ==
  \/ \E raw \in BOOLEAN : initialize(raw)
  \/ \E resolved \in BOOLEAN : initializeGetPair1(resolved)
  \/ \E resolved \in BOOLEAN : initializeGetPair2(resolved)
  \/ pancakeQuote(TRUE, 0)
  \/ biswapQuote(TRUE, 0)
  \/ startMonitoring
  \/ \E i \in 1..Len(DexKeys), l \in Labels, e \in PairEvents : pairEvent(DexKeys[i], l, e)
  \/ \E s \in Labels : websocketError(s)
  \/ \E s \in Labels : websocketClose(s)
  \/ \E s \in Labels : rateLimitMessage(s)
  \/ \E i \in 1..MaxSockets, threw \in BOOLEAN : reconnectTimer(i, threw)
  \/ \E i \in 1..MaxSockets, resolved \in BOOLEAN : reconnectGetPair1(i, resolved)
  \/ \E i \in 1..MaxSockets, resolved \in BOOLEAN : reconnectGetPair2(i, resolved)
  \/ close

SpecConnection == Init /\ [][NextConnection]_vars

(***************************************************************************)
(* Properties of the contract                                              *)
(***************************************************************************)
SwapCalls == {i \in 1..Len(calls) : calls[i].op = "swap"}
LoanRequested == \E i \in 1..Len(calls) : calls[i].op = "flashLoan"
ExecuteArbitrageEnded == pc = "Done" /\ tx.fn = "executeArbitrage"

\* C1: an executeArbitrage transaction ends either finalized, with both swaps
\* made, the profit check passed, the pool approved for exactly amount + fee
\* as the last call and the loan repaid, or reverted with the whole ledger
\* (balances, allowances, storage, loan) as it was before the transaction.
C1_AtomicOutcome ==
  ExecuteArbitrageEnded =>
    \/ /\ tx.result = "success"
       /\ Cardinality(SwapCalls) = 2
       /\ tx.netProfit >= tx.minRequiredProfit
       /\ calls[Len(calls)] = Call("approve", tx.token1, tx.token1, POOL, tx.amount + tx.fee)
       /\ debt = 0
    \/ /\ tx.result = "reverted"
       /\ Ledger = snap

\* C1 witness: a transaction reverted after both swaps had been made.
C1_Witness ==
  /\ ExecuteArbitrageEnded
  /\ tx.result = "reverted"
  /\ Cardinality(SwapCalls) = 2

\* C2: whenever executeOperation returns success, finalAmount >= borrowedAmount
\* + loanFee + minRequiredProfit, with minRequiredProfit = loanFee +
\* borrowedAmount * minProfitBps / 10000.
C2_ProfitBound ==
  pc = "Repay" =>
    tx.sellAmount >= tx.amount + tx.fee
                     + (tx.fee + ((tx.amount * minProfitBps) \div BASIS_POINTS))

\* C3: swap 1 spends the borrowed amount of tokenA for tokenB on the buy venue's
\* router; swap 2 spends swap 1's output of tokenB for tokenA on the sell
\* venue's router.
C3_SwapDirections ==
  \A i \in SwapCalls :
    IF \A j \in SwapCalls : i <= j
    THEN calls[i] = Call("swap", tx.buyRouter, tx.token1, tx.token2, tx.amount)
    ELSE calls[i] = Call("swap", tx.sellRouter, tx.token2, tx.token1, tx.buyAmount)

\* C4: an executeArbitrage call made while the contract is paused is rejected
\* and requests no flash loan.
C4_PausedRejects ==
  (tx.fn = "executeArbitrage" /\ tx.wasPaused) =>
    (pc = "Done" /\ tx.result = "reverted" /\ ~LoanRequested)

\* C5: executeOperation makes swaps or approvals only when called by the
\* lending pool with this contract as initiator; any other call ends reverted
\* with no call made and the ledger unchanged.
C5_CallbackAuthorized ==
  LET authorized == tx.sender = POOL /\ tx.initiator = THIS IN
  /\ (\E i \in 1..Len(calls) : calls[i].op \in {"approve", "quote", "swap"}) => authorized
  /\ (pc \notin {"Idle", "Done", "LoanRequested", "Callback"}) => authorized
  /\ (pc = "Done" /\ tx.fn = "executeOperation" /\ ~authorized) =>
       (tx.result = "reverted" /\ calls = <<>> /\ Ledger = snap)

\* C5 witness: the pool called back in a flash loan that a user requested.
C5_Witness ==
  /\ pc = "Done"
  /\ tx.fn = "executeOperation"
  /\ tx.sender = POOL
  /\ tx.initiator \in Users
  /\ tx.reason = "Initiator must be this contract"

\* C6: executeArbitrage with token1 = token2, a zero token address or a zero
\* amount is rejected before any flash loan is requested, ledger unchanged.
C6_InvalidInputRejected ==
  (/\ tx.fn = "executeArbitrage"
   /\ (tx.token1 = tx.token2 \/ tx.token1 = ZERO \/ tx.token2 = ZERO \/ tx.amount = 0)) =>
    (pc = "Done" /\ tx.result = "reverted" /\ calls = <<>> /\ Ledger = snap)

\* C6 witness: two equal, existing tokens and a positive amount.
C6_Witness ==
  /\ pc = "Done"
  /\ tx.fn = "executeArbitrage"
  /\ tx.token1 = tx.token2
  /\ tx.token1 \in Tokens
  /\ tx.amount > 0
  /\ tx.reason = "Tokens must be different"

\* C7: pause() while paused and unpause() while not paused fail and change
\* nothing; the owner's pause() from not paused sets paused and the owner's
\* unpause() from paused clears it, changing nothing else.
C7_PauseUnpause ==
  (pc = "Done" /\ tx.fn \in {"pause", "unpause"}) =>
    LET wrongState == snap.paused = (tx.fn = "pause") IN
    /\ wrongState => (tx.result = "reverted" /\ Ledger = snap)
    /\ (~wrongState /\ tx.caller = snap.owner) =>
         (tx.result = "success" /\ Ledger = [snap EXCEPT !.paused = (tx.fn = "pause")])

\* C7 witness: the owner pauses a contract that is already paused.
C7_Witness ==
  /\ pc = "Done"
  /\ tx.fn = "pause"
  /\ tx.caller = snap.owner
  /\ snap.paused
  /\ tx.result = "reverted"

OwnerGated ==
  {"setMinProfitBps", "pause", "unpause", "emergencyWithdraw", "revokeAllowance"}

\* Calls of owner-gated functions by a non-owner are rejected, ledger unchanged.
NonOwnerRejected(gated) ==
  (pc' = "Done" /\ tx'.fn \in gated /\ tx'.caller # owner) =>
    (tx'.result = "reverted" /\ Ledger' = Ledger)

\* C8 as stated: OwnerConfig changes only in an owner-initiated
\* setMinProfitBps, pause or unpause.
C8_OnlyThreeSetters ==
  [][/\ OwnerConfig' # OwnerConfig =>
          (tx'.fn \in {"setMinProfitBps", "pause", "unpause"} /\ tx'.caller = owner)
     /\ NonOwnerRejected(OwnerGated)]_vars

\* C8 amended: OwnerConfig changes only in an owner-initiated setMinProfitBps,
\* pause, unpause, transferOwnership or renounceOwnership; a non-owner's call of
\* any owner-gated function is rejected with no state change; executeArbitrage
\* and executeOperation never change OwnerConfig.
C8_OwnerConfigFrame ==
  [][/\ OwnerConfig' # OwnerConfig =>
          /\ tx'.fn \in {"setMinProfitBps", "pause", "unpause",
                          "transferOwnership", "renounceOwnership"}
          /\ tx'.caller = owner
     /\ NonOwnerRejected(OwnerGated \cup {"transferOwnership", "renounceOwnership"})]_vars

\* C8 witness: a non-owner's setMinProfitBps with an acceptable value.
C8_Witness ==
  /\ pc = "Done"
  /\ tx.fn = "setMinProfitBps"
  /\ tx.caller # snap.owner
  /\ tx.amount > 0
  /\ tx.result = "reverted"

\* C9: every approve of a positive amount made by the contract is immediately
\* preceded by an approve of the same token and spender to zero.
C9_ResetBeforeApprove ==
  \A i \in 1..Len(calls) :
    (calls[i].op = "approve" /\ calls[i].amount > 0) =>
      /\ i > 1
      /\ calls[i - 1] = [calls[i] EXCEPT !.amount = 0]

\* C9 witness: the repayment approval has been made after both swap approvals.
C9_Witness ==
  /\ pc = "Repay"
  /\ Cardinality({i \in 1..Len(calls) : calls[i].op = "approve" /\ calls[i].amount > 0}) = 3


(***************************************************************************)
(* Properties of the price monitor                                         *)
(***************************************************************************)
CycleCompared ==
  /\ checkPc = "Idle"
  /\ pancakePriceFormatted # Null
  /\ biswapPriceFormatted # Null

AbsDifference(a, b) == IF a >= b THEN a - b ELSE b - a

\* floor(159 * n / 10000), the largest integer difference d with
\* d / n <= 0.0159
CostBound(n) == 159 * (n \div 10000) + (159 * (n % 10000)) \div 10000

\* C10: a cycle whose two 6-decimal quotes have |priceA - priceB| / priceA <=
\* 0.0159 (priceA the PancakeSwap quote) reports no opportunity; in particular
\* 100.000000 against 100.600000 reports none.
C10_NoOpportunityWithinCost ==
  (/\ CycleCompared
   /\ pancakePriceFormatted > 0
   /\ AbsDifference(pancakePriceFormatted, biswapPriceFormatted)
        <= CostBound(pancakePriceFormatted)) =>
    logged = <<>>

\* C11: a cycle whose two 6-decimal quotes have |priceA - priceB| / priceA >
\* 0.0159 (priceA the PancakeSwap quote) reports exactly one opportunity, whose
\* low (buy) side is the venue with the strictly lower price and whose high
\* (sell) side is the venue with the strictly higher price; 100.000000 against
\* 103.000000 reports PancakeSwap as the low side and BiSwap as the high side.
C11_OpportunityAboveCost ==
  (/\ CycleCompared
   /\ pancakePriceFormatted > 0
   /\ AbsDifference(pancakePriceFormatted, biswapPriceFormatted)
        > CostBound(pancakePriceFormatted)) =>
    /\ Len(logged) = 1
    /\ logged[1].lowPrice < logged[1].highPrice
    /\ logged[1] =
         IF pancakePriceFormatted < biswapPriceFormatted
         THEN [pair |-> "BNB/USD",
               highDex |-> "BiSwap", highPrice |-> biswapPriceFormatted,
               lowDex |-> "PancakeSwap", lowPrice |-> pancakePriceFormatted]
         ELSE [pair |-> "BNB/USD",
               highDex |-> "PancakeSwap", highPrice |-> pancakePriceFormatted,
               lowDex |-> "BiSwap", lowPrice |-> biswapPriceFormatted]

C11_Witness ==
  /\ CycleCompared
  /\ pancakePriceFormatted = 100000000
  /\ biswapPriceFormatted = 103000000
  /\ logged = <<[pair |-> "BNB/USD",
                 highDex |-> "BiSwap", highPrice |-> 103000000,
                 lowDex |-> "PancakeSwap", lowPrice |-> 100000000]>>

(***************************************************************************)
(* Claims about the subscription transport                                 *)
(***************************************************************************)
FailureSignal ==
  \E s \in Labels : websocketError(s) \/ websocketClose(s) \/ rateLimitMessage(s)

BackoffCount(seq) == Cardinality({i \in 1..Len(seq) : seq[i].pc = "Backoff"})

Delays == <<5000, 10000, 20000, 40000, 80000>>

\* C12: in every step, the attempt counter stays in 0..maxReconnectAttempts,
\* every reconnect call in flight is an attempt n in 1..5 whose delay is
\* reconnectInterval * 2^(n-1) (at most 16 times the base), a call that starts
\* is the attempt the counter then shows, and no step taken with the counter at
\* the cap starts a backoff; a failure signal arriving at the cap leaves the
\* counter and the calls in flight as they are.
C12_BackoffSchedule ==
  [][/\ reconnectAttempts' \in 0..maxReconnectAttempts
     /\ \A i \in 1..Len(inflight') :
          /\ inflight'[i].n \in 1..maxReconnectAttempts
          /\ inflight'[i].delay = Delays[inflight'[i].n]
          /\ inflight'[i].delay <= 16 * reconnectInterval
     /\ BackoffCount(inflight') > BackoffCount(inflight) =>
          /\ reconnectAttempts' > reconnectAttempts
          /\ inflight'[Len(inflight')].pc = "Backoff"
          /\ inflight'[Len(inflight')].n = reconnectAttempts'
     /\ reconnectAttempts >= maxReconnectAttempts =>
          BackoffCount(inflight') <= BackoffCount(inflight)
     /\ (FailureSignal /\ reconnectAttempts >= maxReconnectAttempts) =>
          UNCHANGED <<reconnectAttempts, inflight>>
    ]_vars

\* A close signal whose handler called reconnect() at the cap, the fifth
\* attempt waiting 80 seconds
C12_Witness ==
  /\ reconnectAttempts = maxReconnectAttempts
  /\ received = [kind |-> "close", calls |-> 1, started |-> 0]
  /\ gaveUp
  /\ inflight = <<[n |-> 5, delay |-> 80000, pc |-> "Backoff", socket |-> NoSocket]>>

\* C13: at most one reconnect() call is between its start and its completion,
\* and a failure signal that arrives while one is in flight starts no second
\* call and leaves the attempt counter as it is.
C13_SingleReconnectInFlight ==
  [][/\ Len(inflight') <= 1
     /\ (FailureSignal /\ Len(inflight) > 0) => UNCHANGED <<inflight, reconnectAttempts>>
    ]_vars

\* C14: once reconnect() has been refused at the cap, no reconnect call starts
\* its backoff, the attempt counter is not reset to zero, and the monitor the
\* supervisor holds does not report itself as running.
C14_TerminalFailed ==
  [][/\ gaveUp =>
          /\ BackoffCount(inflight') <= BackoffCount(inflight)
          /\ reconnectAttempts' # 0
     /\ (gaveUp' /\ initPc' = "Monitoring") => ~isMonitorRunning'
    ]_vars

\* The attempt counter back at zero and a new attempt started after the cap
\* was hit
C14_RetriedAfterCap ==
  /\ gaveUp
  /\ isMonitorRunning
  /\ reconnectAttempts = 1
  /\ received.started = 1

\* C15: once initialize has returned, a rate-limit message delivered by an
\* open websocket, the one made by initialize included, has a handler that
\* calls reconnect().
C15_RateLimitReconnects ==
  [][\A s \in Labels :
       (rateLimitMessage(s) /\ initPc = "Monitoring") => received'.calls >= 1]_vars

\* The pair contract held for the venue was made by a reconnect, and Swap and
\* Sync listeners are registered on it
SubscriptionLive(dexKey) ==
  /\ pairContracts[dexKey] \notin {NoContract, FirstSocket}
  /\ \A e \in PairEvents : <<dexKey, pairContracts[dexKey], e>> \in listeners

\* C16: a step of reconnect() that resets the attempt counter to zero ends in
\* a state where, for every venue, the pair contract was re-resolved through
\* the factory and carries Swap and Sync listeners.
C16_ResetOnlyWhenLive ==
  [][(\E i \in 1..MaxSockets, resolved \in BOOLEAN : reconnectGetPair2(i, resolved)) =>
       /\ reconnectAttempts' = 0
       /\ \A d \in 1..Len(DexKeys) : SubscriptionLive(DexKeys[d])']_vars

\* C17: once close() has been called, no Swap or Sync listener is registered
\* on any pair contract object, and no checkPrices cycle starts.
C17_ClosedIsQuiet ==
  [][closed' =>
       /\ listeners' = {}
       /\ closed => (checkPc' = "PancakeQuote" => checkPc = "PancakeQuote")]_vars

\* The part of C17 that holds: no checkPrices cycle starts after close()
C17_NoCycleAfterClose ==
  [][closed => (checkPc' = "PancakeQuote" => checkPc = "PancakeQuote")]_vars

(***************************************************************************)
(* Further claims about the detection cycle                                *)
(***************************************************************************)
\* C18: a cycle that reported an opportunity has made one call of
\* executeArbitrage, with the pair's tokens and isPancakeswapBuy saying
\* whether PancakeSwap is the low (buy) side.
C18_OpportunitySubmitted ==
  (CycleCompared /\ logged # <<>>) =>
    /\ tx.fn = "executeArbitrage"
    /\ tx.isPancakeswapBuy = (logged[1].lowDex = "PancakeSwap")

\* C19: the divergence the cycle compares with totalCostRatio is |priceA -
\* priceB| over the higher of the two prices: a cycle in which BiSwap is the
\* higher-priced venue reports an opportunity only if |priceA - priceB| /
\* priceB > 0.0159, as it does for the exchanged quotes.
C19_DivergenceByHigherPrice ==
  (/\ CycleCompared
   /\ pancakePriceFormatted > 0
   /\ biswapPriceFormatted > pancakePriceFormatted
   /\ logged # <<>>) =>
    AbsDifference(pancakePriceFormatted, biswapPriceFormatted)
      > CostBound(biswapPriceFormatted)

\* The exchange of two quotes changes the outcome: 100.000000 on PancakeSwap
\* against 101.590001 on BiSwap is reported
C19_ReportedOneWay ==
  /\ CycleCompared
  /\ pancakePriceFormatted = 100000000
  /\ biswapPriceFormatted = 101590001
  /\ logged # <<>>

\* and 101.590001 on PancakeSwap against 100.000000 on BiSwap is not
C19_SilentOtherWay ==
  /\ CycleCompared
  /\ pancakePriceFormatted = 101590001
  /\ biswapPriceFormatted = 100000000
  /\ logged = <<>>

\* C20: a getPrice call that fails returns null and the cycle goes on: after a
\* failed PancakeSwap quote the BiSwap quote is still requested, and a cycle
\* that ends with either quote null ends normally, with nothing formatted and
\* no opportunity reported.
C20_UnavailableSkipsPair ==
  [][/\ pancakeQuote(TRUE, 0) => (pancakePrice' = Null /\ checkPc' = "BiswapQuote")
     /\ biswapQuote(TRUE, 0) => (biswapPrice' = Null /\ checkPc' = "Idle")
     /\ (checkPc = "BiswapQuote" /\ checkPc' = "Idle"
         /\ (pancakePrice' = Null \/ biswapPrice' = Null)) =>
          /\ logged' = <<>>
          /\ pancakePriceFormatted' = Null
          /\ biswapPriceFormatted' = Null
    ]_vars

\* A cycle has ended in which the PancakeSwap quote was 100 and the BiSwap
\* quote failed
C20_Witness ==
  /\ checkPc = "Idle"
  /\ pancakePrice = 1000000000
  /\ biswapPrice = Null
  /\ logged = <<>>

(***************************************************************************)
(* Further claims about the contract                                       *)
(***************************************************************************)
\* C22: an executeArbitrage call made while an executeArbitrage call is still
\* executing is rejected by the re-entrancy guard, and the guard is released
\* whenever no transaction is executing, after a reverted one as after a
\* finalized one, so that no top-level executeArbitrage call is rejected by it.
C22_GuardRejectsAndReleases ==
  /\ tx.nested # NONE => tx.nested = "ReentrancyGuardReentrantCall"
  /\ pc \in {"Idle", "Done"} => status = NOT_ENTERED
  /\ (tx.fn = "executeArbitrage" /\ pc \notin {"Idle", "Done"}) => status = ENTERED
  /\ tx.reason # "ReentrancyGuardReentrantCall"

\* A nested call was rejected, the outer executeArbitrage reverted, and the
\* guard is released
C22_Witness ==
  /\ pc = "Done"
  /\ tx.fn = "executeArbitrage"
  /\ tx.nested = "ReentrancyGuardReentrantCall"
  /\ tx.result = "reverted"
  /\ status = NOT_ENTERED

\* C23: for every minProfitBps that setMinProfitBps accepts, the minimum
\* output of a swap leg is computed without arithmetic failure and lies
\* between 0 and the quoted expected output.
C23_MinAmountOutWithinExpected ==
  /\ (pc = "SwapQuote" /\ minProfitBps > 0) =>
       \A expectedAmountOut \in Outs :
         /\ minAmountOutOf(expectedAmountOut) >= 0
         /\ minAmountOutOf(expectedAmountOut) <= expectedAmountOut
  /\ tx.reason # "Panic(0x11)"

\* With the initial minProfitBps of 10 a leg has passed its quote with the
\* minimum output equal to the expected output: nothing was taken off
C23_NoMargin ==
  /\ pc = "SwapExec"
  /\ minProfitBps = InitialMinProfitBps
  /\ tx.expectedAmountOut = MaxOut
  /\ tx.minAmountOut = MaxOut

\* C21: in a cycle, the first quote to settle does so while the requests to
\* both venues are outstanding, and the prices are formatted and compared
\* only in the step after which no request is outstanding.
C21_QuotesInParallel ==
  [][/\ (checkPc = "PancakeQuote" /\ checkPc' # "PancakeQuote") =>
          outstanding = {"pancakeswap", "biswap"}
     /\ (pancakePriceFormatted' # pancakePriceFormatted
         /\ pancakePriceFormatted' # Null) => outstanding' = {}
    ]_vars

\* The part of C21 that holds: the comparison follows both quotes
C21_ComparedAfterBoth ==
  [][(pancakePriceFormatted' # pancakePriceFormatted /\ pancakePriceFormatted' # Null) =>
       /\ outstanding' = {}
       /\ pancakePrice' # Null
       /\ biswapPrice' # Null]_vars

\* C24: once close() has been called, no step increments the attempt counter,
\* starts a backoff delay or creates a websocket provider.
C24_NoReconnectAfterClose ==
  [][closed =>
       /\ reconnectAttempts' <= reconnectAttempts
       /\ BackoffCount(inflight') <= BackoffCount(inflight)
       /\ Len(sockets') = Len(sockets)]_vars

\* close() was called while the first provider was the current one, and a
\* reconnect started by the close event of its socket has since created a
\* second provider, which is open
C24_ReconnectedAfterClose ==
  /\ closed
  /\ received = [kind |-> "close", calls |-> 1, started |-> 1]
  /\ Len(sockets) = 2
  /\ sockets[FirstSocket].status = "closed"
  /\ sockets[2].status = "open"
  /\ wsProvider = 2
  /\ inflight = <<[n |-> 1, delay |-> 5000, pc |-> "GetPair1", socket |-> 2]>>

====
